---- MODULE Spec2Model ----
(***************************************************************************)
(* State-machine model of src/main.cc: the sweep of ad-hoc WiFi            *)
(* simulations run by main(), one RunSimulation per node count, and the    *)
(* per-flow report of PrintFlowStatistics.                                 *)
(*                                                                         *)
(* The ns-3 engine is a collaborator.  What it decides on its own (which   *)
(* flow identifier a client's flow gets, the counters of a flow, whether   *)
(* it accepts a configuration) is a nondeterministic input; what           *)
(* main.cc decides (loop bounds, addressing, sink index, file names,       *)
(* guards and formulas of the report) is translated from the code.         *)
(***************************************************************************)
EXTENDS Integers, Sequences, FiniteSets, TLC

(* ------------------------------------------------------------------ *)
(* Constants of main.cc                                                *)
(* ------------------------------------------------------------------ *)
kGridWidth == 6
kMinX == 0
kMinY == 0
kDeltaX == 5
kDeltaY == 10
kSimulationStartTime == 1
kSimulationStopTime == 25
\* main: for (int node = 2; ...
MinNodes == 2
\* PrintFlowStatistics: for (int i = 2; ...
FirstFlowId == 2
\* ExportAnimation: anim.SetConstantPosition(nodes.Get(i), i * 10, 0)
kAnimStepX == 10

(* ------------------------------------------------------------------ *)
(* Bounds of the model                                                 *)
(* ------------------------------------------------------------------ *)
\* Upper end of the sweep.  main.cc sweeps to 30; the model sweeps to
\* MaxNodes, which is past kGridWidth so that the grid wraps to a second row.
MaxNodes == 7

(* ------------------------------------------------------------------ *)
(* Values the engine hands back                                        *)
(* ------------------------------------------------------------------ *)
TxBytesVals == {0, 5120}
RxBytesVals == {0, 512}
TxPacketsVals == {0, 10}
RxPacketsVals == {0, 3}
LostPacketsVals == {0, 2, 10}
DelaySumVals == {0, 10}

\* FlowMonitor::FlowStats as read through stats[i].  std::map::operator[]
\* default-constructs the entry of an identifier the engine never assigned:
\* that is the all-zero record, which is one of these.
FlowRecords ==
    [txBytes : TxBytesVals, rxBytes : RxBytesVals,
     txPackets : TxPacketsVals, rxPackets : RxPacketsVals,
     lostPackets : LostPacketsVals, delaySum : DelaySumVals]

\* Flow identifiers the engine may assign in a run with n nodes: the flow
\* classifier numbers the flows it sees from 1, and a run has the n clients'
\* flows and the sink's echo replies.
FlowIdsOf(n) == 1..(n + 1)

(* ------------------------------------------------------------------ *)
(* Printed values.  A double is kept as the exact fraction num/den of  *)
(* the expression streamed to cout; cls tells a number from "None"     *)
(* and from the results of a division by zero.                         *)
(* ------------------------------------------------------------------ *)
Num(n, d) == [cls |-> "num", num |-> n, den |-> d]
None == [cls |-> "None", num |-> 0, den |-> 1]
NaN == [cls |-> "nan", num |-> 0, den |-> 0]
Inf == [cls |-> "inf", num |-> 1, den |-> 0]
NoRecord ==
    [txBytes |-> 0, rxBytes |-> 0, txPackets |-> 0, rxPackets |-> 0,
     lostPackets |-> 0, delaySum |-> 0]

\* Time simulationTime = kSimulationStopTime - kSimulationStartTime
SimulationTime == kSimulationStopTime - kSimulationStartTime

\* if (txBytes > 0) txBytes * 8.0 / (simulationTime.GetSeconds() * 1000.0) else "None"
TxBitrateUnguarded(s) == Num(s.txBytes * 8, SimulationTime * 1000)
TxBitrate(s) ==
    IF s.txBytes > 0 THEN Num(s.txBytes * 8, SimulationTime * 1000) ELSE None

RxBitrate(s) ==
    IF s.rxBytes > 0 THEN Num(s.rxBytes * 8, SimulationTime * 1000) ELSE None

\* if (rxPackets > 0) delaySum / rxPackets else "None"; ns3::Time divided by an
\* integer is a Time again: the quotient in whole ticks.
MeanDelay(s) ==
    IF s.rxPackets > 0 THEN Num(s.delaySum \div s.rxPackets, 1) ELSE None

\* (double)lostPackets / (double)txPackets * 100.0, no guard: IEEE-754 division
\* gives nan for 0/0 and inf for x/0, and raises nothing.
LossRatioOfRx(s) ==
    IF s.txPackets = 0
    THEN IF s.rxPackets = 0 THEN NaN ELSE Inf
    ELSE Num(s.rxPackets * 100, s.txPackets)
LossRatio(s) ==
    IF s.txPackets = 0
    THEN IF s.lostPackets = 0 THEN NaN ELSE Inf
    ELSE Num(s.lostPackets * 100, s.txPackets)

(* ------------------------------------------------------------------ *)
(* Topology and traffic pattern                                        *)
(* ------------------------------------------------------------------ *)
\* GridPositionAllocator, LayoutType RowFirst, with the attributes SetupWifiNodes sets
GridPosition(i) ==
    <<kMinX + kDeltaX * (i % kGridWidth), kMinY + kDeltaY * (i \div kGridWidth)>>

\* ExportAnimation: anim.SetConstantPosition(nodes.Get(i), i * 10, 0)
AnimPosition(i) == <<i * kAnimStepX, 0>>

\* SetupApplications: the client on node i addresses nodes.Get((i + 1) % nWifi)
DestNoWrap(i, n) == i + 1
Dest(i, n) == (i + 1) % n

\* SetupApplications: serverHelper.Install(nodes.Get(nWifi - 1))
SinkIndexFirst(n) == 0
SinkIndex(n) == n - 1

\* "flowmonitor-" << nWifi << "-nodes.xml"
FlowFileName(n) == <<"flowmonitor-", n, "-nodes.xml">>
\* sprintf(animfile, "anim-%d-nodes.xml", nWifi)
AnimFileName(n) == <<"anim-", n, "-nodes.xml">>

(* ------------------------------------------------------------------ *)
(* State                                                               *)
(* ------------------------------------------------------------------ *)
VARIABLES
    pc,            \* where main / RunSimulation stands
    node,          \* main's loop variable, RunSimulation's nWifi
    maxN,          \* upper end of main's loop
    nodes,         \* number of nodes in the NodeContainer of the run
    position,      \* node index -> position given by the mobility helper
    clientApps,    \* installed echo clients, <<node index, destination index>>
    sinkApps,      \* node indexes with an installed echo server
    monitor,       \* flow monitor installed on the run
    live,          \* node counts of the runs whose engine state exists
    clock,         \* engine clock, seconds
    engineLog,     \* engine calls of the current run, in order
    clientFlowIds, \* identifiers the engine gave the clients' flows
    sinkFlowId,    \* identifier of the flow of the client addressing the sink
    i,             \* PrintFlowStatistics' loop variable
    stat,          \* stats[i] as last read
    reported,      \* flow identifiers reported in the current run, in order
    lastOut,       \* last item written to cout
    animPos,       \* node index -> position handed to the animation
    artifacts,     \* file names requested so far, in order
    runs,          \* node counts of the simulations run so far, in order
    failedAt       \* node count of the run whose setup the engine rejected, 0 if none

vars == <<pc, node, maxN, nodes, position, clientApps, sinkApps, monitor, live,
          clock, engineLog, clientFlowIds, sinkFlowId, i, stat, reported,
          lastOut, animPos, artifacts, runs, failedAt>>

runLocals == <<nodes, position, clientApps, sinkApps, monitor, clientFlowIds,
               sinkFlowId, i, stat, reported, animPos>>

NoLine == [kind |-> "none", id |-> 0, tx |-> None, rx |-> None,
           txPackets |-> 0, rxPackets |-> 0, delay |-> None, loss |-> None]
TextLine(k, n) == [NoLine EXCEPT !.kind = k, !.id = n]

\* One "======= FlowID: i =======" block of PrintFlowStatistics
FlowLine(id, s) ==
    [kind |-> "flow", id |-> id, tx |-> TxBitrate(s), rx |-> RxBitrate(s),
     txPackets |-> s.txPackets, rxPackets |-> s.rxPackets,
     delay |-> MeanDelay(s), loss |-> LossRatio(s)]

InitCommon ==
    /\ pc = "main"
    /\ nodes = 0
    /\ position = <<>>
    /\ clientApps = {}
    /\ sinkApps = {}
    /\ monitor = FALSE
    /\ live = {}
    /\ clock = 0
    /\ engineLog = <<>>
    /\ clientFlowIds = {}
    /\ sinkFlowId = 0
    /\ i = 0
    /\ stat = NoRecord
    /\ reported = <<>>
    /\ lastOut = NoLine
    /\ animPos = <<>>
    /\ artifacts = <<>>
    /\ runs = <<>>
    /\ failedAt = 0

\* main(): the sweep
Init ==
    /\ InitCommon
    /\ node = MinNodes
    /\ maxN = MaxNodes

\* RunSimulation(n, interval, maxPackets) called once, for any n >= 1
InitCall ==
    /\ InitCommon
    /\ node \in 1..MaxNodes
    /\ maxN = node

(* ------------------------------------------------------------------ *)
(* main                                                                *)
(* ------------------------------------------------------------------ *)
\* for (...; node <= 30; ...) RunSimulation(node, interval, maxPackets): the call
MainLoop ==
    /\ pc = "main"
    /\ node <= maxN
    /\ pc' = "configure"
    /\ engineLog' = <<>>
    /\ UNCHANGED <<node, maxN, live, clock, lastOut, artifacts, runs, failedAt>>
    /\ UNCHANGED runLocals

MainExit ==
    /\ pc = "main"
    /\ node > maxN
    /\ pc' = "done"
    /\ UNCHANGED <<node, maxN, live, clock, engineLog, lastOut, artifacts, runs,
                   failedAt>>
    /\ UNCHANGED runLocals

(* ------------------------------------------------------------------ *)
(* RunSimulation                                                       *)
(* ------------------------------------------------------------------ *)
\* ConfigureLogging(); ConfigureRtsCtsThreshold();
Configure ==
    /\ pc = "configure"
    /\ pc' = "nodes"
    /\ engineLog' = engineLog \o <<"LogComponentEnable", "SetDefault">>
    /\ UNCHANGED <<node, maxN, live, clock, lastOut, artifacts, runs, failedAt>>
    /\ UNCHANGED runLocals

\* SetupWifiNodes(nodes, nWifi)
SetupWifiNodes ==
    /\ pc = "nodes"
    /\ pc' = "network"
    /\ nodes' = node
    /\ position' = [k \in 0..(node - 1) |-> GridPosition(k)]
    /\ live' = live \cup {node}
    /\ engineLog' = engineLog \o <<"CreateNodes", "InstallMobility">>
    /\ UNCHANGED <<node, maxN, clock, lastOut, artifacts, runs, failedAt,
                   clientApps, sinkApps, monitor, clientFlowIds, sinkFlowId, i,
                   stat, reported, animPos>>

\* SetupWifiNetwork(nodes)
SetupWifiNetwork ==
    /\ pc = "network"
    /\ pc' = "monitor"
    /\ engineLog' = engineLog \o <<"InstallNetworkStack">>
    /\ UNCHANGED <<node, maxN, live, clock, lastOut, artifacts, runs, failedAt>>
    /\ UNCHANGED runLocals

\* flowHelper.InstallAll()
InstallFlowMonitor ==
    /\ pc = "monitor"
    /\ pc' = "apps"
    /\ monitor' = TRUE
    /\ engineLog' = engineLog \o <<"InstallFlowMonitor">>
    /\ UNCHANGED <<node, maxN, live, clock, lastOut, artifacts, runs, failedAt,
                   nodes, position, clientApps, sinkApps, clientFlowIds,
                   sinkFlowId, i, stat, reported, animPos>>

\* SetupApplications(nodes, nWifi, interval, maxPackets)
SetupApplications ==
    /\ pc = "apps"
    /\ pc' = "run"
    /\ clientApps' = {<<k, Dest(k, node)>> : k \in 0..(node - 1)}
    /\ sinkApps' = {SinkIndex(node)}
    /\ engineLog' = engineLog \o <<"InstallApplications">>
    /\ UNCHANGED <<node, maxN, live, clock, lastOut, artifacts, runs, failedAt,
                   nodes, position, monitor, clientFlowIds, sinkFlowId, i, stat,
                   reported, animPos>>

\* The engine aborts the process on a configuration it rejects (NS_FATAL_ERROR);
\* neither RunSimulation nor main catches anything.
EngineRejectCaught ==
    /\ pc \in {"nodes", "network", "monitor", "apps"}
    /\ pc' = "main"
    /\ node' = node + 1
    /\ failedAt' = node
    /\ live' = {}
    /\ UNCHANGED <<maxN, clock, engineLog, lastOut, artifacts, runs>>
    /\ UNCHANGED runLocals
EngineReject ==
    /\ pc \in {"nodes", "network", "monitor", "apps"}
    /\ pc' = "aborted"
    /\ failedAt' = node
    /\ UNCHANGED <<node, maxN, live, clock, engineLog, lastOut, artifacts, runs>>
    /\ UNCHANGED runLocals

\* Simulator::Stop(kSimulationStopTime); cout << "Simulation running...";
\* Simulator::Run();  Every client originates one flow; the engine gives the
\* flows pairwise different identifiers of its own choosing.
SimulatorRun ==
    /\ pc = "run"
    /\ pc' = "destroy"
    /\ clock' = clock + kSimulationStopTime
    /\ runs' = Append(runs, node)
    /\ lastOut' = TextLine("running", node)
    /\ \E ids \in SUBSET FlowIdsOf(node) :
          /\ Cardinality(ids) = Cardinality(clientApps)
          /\ clientFlowIds' = ids
          /\ \E f \in ids : sinkFlowId' = f
    /\ engineLog' = engineLog \o <<"Stop", "Run">>
    /\ UNCHANGED <<node, maxN, live, artifacts, failedAt, nodes, position,
                   clientApps, sinkApps, monitor, i, stat, reported, animPos>>

\* Simulator::Destroy()
SimulatorDestroyNothing ==
    /\ pc = "destroy"
    /\ pc' = "flowxml"
    /\ engineLog' = engineLog \o <<"Destroy">>
    /\ UNCHANGED <<node, maxN, live, clock, lastOut, artifacts, runs, failedAt>>
    /\ UNCHANGED runLocals
SimulatorDestroy ==
    /\ pc = "destroy"
    /\ pc' = "flowxml"
    /\ live' = {}
    /\ clock' = 0
    /\ engineLog' = engineLog \o <<"Destroy">>
    /\ UNCHANGED <<node, maxN, lastOut, artifacts, runs, failedAt>>
    /\ UNCHANGED runLocals

\* flowMonitor->SerializeToXmlFile("flowmonitor-<nWifi>-nodes.xml", true, true)
SerializeFlowReport ==
    /\ pc = "flowxml"
    /\ pc' = "anim"
    /\ artifacts' = Append(artifacts, FlowFileName(node))
    /\ engineLog' = engineLog \o <<"SerializeToXmlFile">>
    /\ UNCHANGED <<node, maxN, live, clock, lastOut, runs, failedAt>>
    /\ UNCHANGED runLocals

\* ExportAnimation(nodes, nWifi)
ExportAnimation ==
    /\ pc = "anim"
    /\ pc' = "stats"
    /\ artifacts' = Append(artifacts, AnimFileName(node))
    /\ animPos' = [k \in 0..(node - 1) |-> AnimPosition(k)]
    /\ engineLog' = engineLog \o <<"AnimationInterface">>
    /\ UNCHANGED <<node, maxN, live, clock, lastOut, runs, failedAt, nodes,
                   position, clientApps, sinkApps, monitor, clientFlowIds,
                   sinkFlowId, i, stat, reported>>

(* ------------------------------------------------------------------ *)
(* PrintFlowStatistics                                                 *)
(* ------------------------------------------------------------------ *)
\* CheckForLostPackets(); stats = GetFlowStats(); for (int i = 2; ...
GetFlowStats ==
    /\ pc = "stats"
    /\ pc' = "print"
    /\ i' = FirstFlowId
    /\ engineLog' = engineLog \o <<"CheckForLostPackets", "GetFlowStats">>
    /\ UNCHANGED <<node, maxN, live, clock, lastOut, artifacts, runs, failedAt,
                   nodes, position, clientApps, sinkApps, monitor, clientFlowIds,
                   sinkFlowId, stat, reported, animPos>>

\* One iteration of for (...; i <= nWifi; i++) on stats[i]
PrintFlow ==
    /\ pc = "print"
    /\ i <= node
    /\ \E s \in FlowRecords :
          /\ stat' = s
          /\ lastOut' = FlowLine(i, s)
    /\ reported' = Append(reported, i)
    /\ i' = i + 1
    /\ UNCHANGED <<pc, node, maxN, live, clock, engineLog, artifacts, runs,
                   failedAt, nodes, position, clientApps, sinkApps, monitor,
                   clientFlowIds, sinkFlowId, animPos>>

\* The loop ends and RunSimulation returns, which ends the life of its locals;
\* main: cout << "Simulation for <node> nodes"; node++
NextNodeSkip(n) == n + 2
NextNode(n) == n + 1

PrintReturn ==
    /\ pc = "print"
    /\ i > node
    /\ pc' = "main"
    /\ lastOut' = TextLine("finished", node)
    /\ node' = NextNode(node)
    /\ nodes' = 0
    /\ position' = <<>>
    /\ clientApps' = {}
    /\ sinkApps' = {}
    /\ monitor' = FALSE
    /\ clientFlowIds' = {}
    /\ sinkFlowId' = 0
    /\ i' = 0
    /\ stat' = NoRecord
    /\ reported' = <<>>
    /\ animPos' = <<>>
    /\ UNCHANGED <<maxN, live, clock, engineLog, artifacts, runs, failedAt>>

Next ==
    \/ MainLoop
    \/ MainExit
    \/ Configure
    \/ SetupWifiNodes
    \/ SetupWifiNetwork
    \/ InstallFlowMonitor
    \/ SetupApplications
    \/ EngineReject
    \/ SimulatorRun
    \/ SimulatorDestroy
    \/ SerializeFlowReport
    \/ ExportAnimation
    \/ GetFlowStats
    \/ PrintFlow
    \/ PrintReturn

\* main() as written: the sweep from MinNodes
Spec == Init /\ [][Next]_vars

\* RunSimulation called for one node count, 1 included
SpecCall == InitCall /\ [][Next]_vars

(* ------------------------------------------------------------------ *)
(* Properties                                                          *)
(* ------------------------------------------------------------------ *)
Range(s) == {s[k] : k \in 1..Len(s)}

\* RunSimulation is past SetupApplications and has not returned
AppsInstalled == pc \in {"run", "destroy", "flowxml", "anim", "stats", "print"}

\* RunSimulation is past Simulator::Destroy and has not returned
AfterDestroy == pc \in {"flowxml", "anim", "stats", "print"}

\* C1: the sweep performs one run per node count from MinNodes to the upper end,
\* in ascending order with none skipped or repeated, and run N requests exactly
\* flowmonitor-<N>-nodes.xml and then anim-<N>-nodes.xml, each once.
C1_SweepRunsAndArtifacts ==
    /\ \A k \in 1..Len(runs) : runs[k] = MinNodes + k - 1
    /\ Len(artifacts) <= 2 * Len(runs)
    /\ \A k \in 1..Len(artifacts) :
          artifacts[k] = IF k % 2 = 1
                         THEN <<"flowmonitor-", runs[(k + 1) \div 2], "-nodes.xml">>
                         ELSE <<"anim-", runs[k \div 2], "-nodes.xml">>
    /\ pc \in {"main", "done"} => Len(artifacts) = 2 * Len(runs)
    /\ pc = "done" => Len(runs) = maxN - MinNodes + 1

C1_Witness ==
    /\ pc = "done"
    /\ Len(runs) = MaxNodes - MinNodes + 1
    /\ runs[1] = 2 /\ runs[2] = 3
    /\ artifacts[3] = <<"flowmonitor-", 3, "-nodes.xml">>
    /\ artifacts[4] = <<"anim-", 3, "-nodes.xml">>

\* C2: at most one run's engine state is live; it is the current run's, it has
\* been run to the stop time when it is destroyed, and it is gone before the
\* next run's setup begins.
C2_OneRunLive ==
    /\ Cardinality(live) <= 1
    /\ live \subseteq {node}
    /\ pc \in {"main", "configure", "nodes", "done"} => live = {} /\ clock = 0
    /\ pc \in {"network", "monitor", "apps", "run"} => live = {node} /\ clock = 0
    /\ pc = "destroy" => live = {node} /\ clock = kSimulationStopTime
    /\ AfterDestroy => live = {} /\ runs[Len(runs)] = node
    /\ pc \in {"configure", "nodes"} => \A n \in Range(runs) : n < node

C2_Witness ==
    /\ pc = "network"
    /\ node = 3
    /\ live = {3}
    /\ runs = <<2>>

\* C3: in a run with N >= 2 nodes there are exactly N clients, one per node
\* index, the client of node k has the single destination (k + 1) mod N, which
\* is a node index, client N-1 addresses node 0, and the one sink is on node N-1.
C3_TrafficPattern ==
    (AppsInstalled /\ node >= 2) =>
        /\ Cardinality(clientApps) = node
        /\ \A k \in 0..(node - 1) :
              {a \in clientApps : a[1] = k} = {<<k, IF k = node - 1 THEN 0 ELSE k + 1>>}
        /\ \A a \in clientApps : a[1] \in 0..(node - 1) /\ a[2] \in 0..(node - 1)
        /\ sinkApps = {node - 1}

C3_Witness ==
    /\ pc = "run"
    /\ node = 4
    /\ clientApps = {<<0, 1>>, <<1, 2>>, <<2, 3>>, <<3, 0>>}
    /\ sinkApps = {3}

\* C4: for a node count below 2 the run fails with InvalidTopologySize before
\* the engine is used: no node is created, no application installed, nothing
\* run, and the call gets no further than its entry.
C4_InvalidTopologySize ==
    node < 2 =>
        /\ pc \in {"main", "configure", "nodes", "InvalidTopologySize"}
        /\ nodes = 0
        /\ clientApps = {}
        /\ sinkApps = {}
        /\ runs = <<>>

\* C5: in a flow's report the TX bitrate is "None" exactly when txBytes = 0, the
\* RX bitrate exactly when rxBytes = 0, the mean delay exactly when
\* rxPackets = 0; a present rate is bytes * 8 / (24 * 1000) and is not zero, a
\* present mean delay is delaySum / rxPackets.
C5_OptionalMetrics ==
    lastOut.kind = "flow" =>
        /\ lastOut.tx.cls \in {"None", "num"}
        /\ lastOut.rx.cls \in {"None", "num"}
        /\ lastOut.delay.cls \in {"None", "num"}
        /\ lastOut.tx.cls = "None" <=> stat.txBytes = 0
        /\ lastOut.rx.cls = "None" <=> stat.rxBytes = 0
        /\ lastOut.delay.cls = "None" <=> stat.rxPackets = 0
        /\ lastOut.tx.cls = "num" =>
              /\ lastOut.tx.num * (24 * 1000) = stat.txBytes * 8 * lastOut.tx.den
              /\ lastOut.tx.den > 0 /\ lastOut.tx.num > 0
        /\ lastOut.rx.cls = "num" =>
              /\ lastOut.rx.num * (24 * 1000) = stat.rxBytes * 8 * lastOut.rx.den
              /\ lastOut.rx.den > 0 /\ lastOut.rx.num > 0
        /\ lastOut.delay.cls = "num" =>
              /\ lastOut.delay.den = 1
              /\ lastOut.delay.num = stat.delaySum \div stat.rxPackets

C5_Witness ==
    /\ lastOut.kind = "flow"
    /\ stat.txBytes = 0 /\ lastOut.tx.cls = "None"
    /\ stat.rxBytes = 512 /\ lastOut.rx.cls = "num"
    /\ stat.rxPackets = 3 /\ stat.delaySum = 10 /\ lastOut.delay.num = 3

\* C6: the loss ratio of a reported flow is lostPackets / txPackets * 100 (2 of
\* 10 gives 20); with txPackets = 0 the value is a not-a-number or an infinity,
\* nothing fails, and the report goes on to the next flow or the next run.
C6_LossRatio ==
    lastOut.kind = "flow" =>
        /\ stat.txPackets > 0 =>
              /\ lastOut.loss.cls = "num"
              /\ lastOut.loss.den > 0
              /\ lastOut.loss.num * stat.txPackets = stat.lostPackets * 100 * lastOut.loss.den
              /\ (stat.lostPackets = 2 /\ stat.txPackets = 10) =>
                    lastOut.loss.num = 20 * lastOut.loss.den
        /\ stat.txPackets = 0 => lastOut.loss.cls \in {"nan", "inf"}
        /\ pc = "print"
        /\ failedAt = 0
        /\ i = lastOut.id + 1
        /\ i <= node => ENABLED PrintFlow
        /\ i > node => ENABLED PrintReturn

C6_Witness ==
    /\ lastOut.kind = "flow"
    /\ stat.txPackets = 0
    /\ stat.lostPackets = 0
    /\ lastOut.loss.cls = "nan"
    /\ i <= node
    /\ node < maxN

\* C7: when the report of a run with N nodes is complete, the reported flow
\* identifiers are 2, 3, ..., N, each once and in this order, and every
\* identifier of a client's flow is among them.
C7_ReportedFlows ==
    (pc = "print" /\ i > node) =>
        /\ reported = [k \in 1..(node - 1) |-> k + 1]
        /\ clientFlowIds \subseteq Range(reported)

\* C8: once the engine has rejected the setup of run N, the program has stopped:
\* run N is not executed, nothing is retried, and no later run is prepared.
C8_SetupFailureAborts ==
    failedAt # 0 =>
        /\ pc = "aborted"
        /\ node = failedAt
        /\ \A n \in Range(runs) : n < failedAt
        /\ ~ ENABLED Next

C8_Witness ==
    /\ failedAt = 3
    /\ pc = "aborted"
    /\ runs = <<2>>
    /\ maxN > 3

\* C9: the position of node k is the row-major grid position
\* ((k mod 6) * 5, (k div 6) * 10), both in the simulated topology and among
\* the positions handed to the animation.
C9_GridPositions ==
    /\ \A k \in DOMAIN position : position[k] = <<(k % 6) * 5, (k \div 6) * 10>>
    /\ \A k \in DOMAIN animPos : animPos[k] = <<(k % 6) * 5, (k \div 6) * 10>>

\* The clients of the run that address a node with a listening sink
SinkClients == {a \in clientApps : a[2] \in sinkApps}

IsHundred(v) == v.cls = "num" /\ v.den > 0 /\ v.num = 100 * v.den

\* C10 (as stated): only client N-2 addresses the sink, client N-1 addresses
\* node 0 where nothing listens, and the flow of every other client shows a
\* loss ratio of 100%.
C10_OthersLoseAll ==
    /\ (AppsInstalled /\ node >= 2) =>
          /\ SinkClients = {<<node - 2, node - 1>>}
          /\ <<node - 1, 0>> \in clientApps /\ 0 \notin sinkApps
    /\ (lastOut.kind = "flow" /\ lastOut.id \in clientFlowIds \ {sinkFlowId}) =>
          IsHundred(lastOut.loss)

\* C10 (amended): only client N-2 addresses the sink and client N-1 addresses
\* node 0 where nothing listens; the loss ratio shown for a flow is 100% exactly
\* when the engine counted every sent packet of that flow as lost, whichever
\* node its client addresses.
C10_SinkAddressing ==
    /\ (AppsInstalled /\ node >= 2) =>
          /\ SinkClients = {<<node - 2, node - 1>>}
          /\ <<node - 1, 0>> \in clientApps /\ 0 \notin sinkApps
    /\ lastOut.kind = "flow" =>
          (IsHundred(lastOut.loss) <=>
              (stat.txPackets > 0 /\ stat.lostPackets = stat.txPackets))

C10_Witness ==
    /\ node = 4
    /\ SinkClients = {<<2, 3>>}
    /\ lastOut.kind = "flow"
    /\ lastOut.id \in clientFlowIds \ {sinkFlowId}
    /\ stat.txPackets = 10 /\ stat.lostPackets = 0
    /\ lastOut.loss.num = 0

====
